---- MODULE Spec2Model ----
(***************************************************************************)
(* Server Management API: the five /servers handlers of                    *)
(* app/routers/servers.py running inside the transaction scope of          *)
(* app/database.py (get_db_connection), against the three tables          *)
(* public.server, public.datacenter and public.switch_to_server.           *)
(*                                                                         *)
(* Each worker serves one request at a time; one step of a worker is one   *)
(* statement sent to the store, so requests interleave statement by        *)
(* statement.  The store is PostgreSQL at READ COMMITTED: a statement sees *)
(* committed rows plus the writes of its own transaction, a row written by *)
(* an open transaction is locked against other writers until that          *)
(* transaction ends, NOW() is the start time of the transaction, and a     *)
(* sequence value once drawn is never handed out again.                    *)
(*                                                                         *)
(* The handlers are written against the blocking form of the connection    *)
(* scope (`with get_db_connection() as conn`, `conn.cursor()`), while      *)
(* app/database.py carries the asyncio form of the same scope.  The model  *)
(* takes what both forms share: one pooled connection and one transaction  *)
(* per request, begun on entry, committed when the handler returns,        *)
(* rolled back when it raises, the connection released either way.         *)
(***************************************************************************)
EXTENDS Integers, Sequences, FiniteSets

\* ---------------------------------------------------------------- bounds
MaxRequests == 2          \* requests accepted in one behaviour
InitAssociations == 2     \* association rows of Server 1 at the start

\* ------------------------------------------------------ program constants
MAX_LIMIT == 1000         \* get_all_servers: limit = min(limit, 1000)
max_size == 10            \* create_pool: maximum connections in the pool

\* ------------------------------------------------------------ value sets
Workers == {"w1", "w2"}
NULL == "NULL"
InitialDatacenters == {"dc1", "dc2"}
InitialServerIds == {1, 2}
TargetIds == {1, 3}
Fields == {"hostname", "configuration", "datacenter_id"}
CreateHostnames == {"h3"}
UpdateHostnames == {"h2"}
CreateConfigurations == {"c0"}
UpdateConfigurations == {"c2"}
CreateDatacenterIds == {"dc1", "dc9"}
UpdateDatacenterIds == {"dc2", "dc9", NULL}
SkipInputs == {-1, 0, 1}
LimitInputs == {-1, 1, 1001}

VARIABLES
    Server,          \* committed rows of public.server
    Datacenter,      \* committed ids of public.datacenter
    SwitchToServer,  \* committed rows of public.switch_to_server
    seq,             \* last value drawn from the server id sequence
    clock,           \* the store's clock
    acquired,        \* connections currently taken from the pool
    started,         \* requests accepted so far
    pc,              \* per worker: the statement the handler is about to run
    req,             \* per worker: the request being served
    txStart,         \* per worker: start time of the open transaction
    tx,              \* per worker: uncommitted writes of the open transaction
    status,          \* per worker: how the handler is going to exit
    local,           \* per worker: the handler's local variables
    stmts,           \* per worker: mutating statements executed so far
    removed          \* ids of Server rows removed by committed deletes

vars == <<Server, Datacenter, SwitchToServer, seq, clock, acquired, started,
          pc, req, txStart, tx, status, local, stmts, removed>>

tables == <<Server, Datacenter, SwitchToServer>>

\* --------------------------------------------------------------- helpers
Min(a, b) == IF a < b THEN a ELSE b

Ids(rows) == {r.id : r \in rows}

RECURSIVE OrderById(_)
OrderById(rows) ==
    IF rows = {} THEN <<>>
    ELSE LET first == CHOOSE r \in rows : \A o \in rows : r.id <= o.id
         IN <<first>> \o OrderById(rows \ {first})

\* LIMIT l OFFSET s applied to an ordered result
LimitOffset(rowsSeq, l, s) ==
    SubSeq(rowsSeq, s + 1, Min(Len(rowsSeq), s + l))

NoRequest ==
    [op |-> "none", server_id |-> 0, body |-> <<>>, skip |-> 0, limit |-> 0]

EmptyTx == [ins |-> {}, upd |-> {}, delServer |-> {}, delAssoc |-> {}]

NoLocal ==
    [limit |-> 0, update_fields |-> {}, server |-> {}, association_count |-> 0,
     result |-> <<>>]

\* ServerUpdate.model_dump(exclude_unset=True): the fields the client sent,
\* an explicit null included
UpdateValues(f) ==
    IF f = "hostname" THEN UpdateHostnames
    ELSE IF f = "configuration" THEN UpdateConfigurations
    ELSE UpdateDatacenterIds

UpdateBodies ==
    UNION {{b \in [D -> UpdateHostnames \cup UpdateConfigurations
                        \cup UpdateDatacenterIds] :
               \A f \in D : b[f] \in UpdateValues(f)} : D \in SUBSET Fields}

CreateBodies ==
    [hostname : CreateHostnames, configuration : CreateConfigurations,
     datacenter_id : CreateDatacenterIds]

Requests ==
    {[op |-> "list", server_id |-> 0, body |-> <<>>, skip |-> s, limit |-> l] :
        s \in SkipInputs, l \in LimitInputs}
    \cup {[op |-> "get", server_id |-> i, body |-> <<>>, skip |-> 0, limit |-> 0] :
        i \in TargetIds}
    \cup {[op |-> "create", server_id |-> 0, body |-> b, skip |-> 0, limit |-> 0] :
        b \in CreateBodies}
    \cup {[op |-> "update", server_id |-> i, body |-> b, skip |-> 0, limit |-> 0] :
        i \in TargetIds, b \in UpdateBodies}
    \cup {[op |-> "delete", server_id |-> i, body |-> <<>>, skip |-> 0, limit |-> 0] :
        i \in TargetIds}

\* delete_server running its cascade before its existence check
StatementAfterCascadeFirst(op, s) ==
    CASE op = "list" /\ s = "enter" -> "list_select"
      [] op = "get" /\ s = "enter" -> "get_select"
      [] op = "create" /\ s = "enter" -> "create_check_datacenter"
      [] op = "create" /\ s = "create_check_datacenter" -> "create_insert"
      [] op = "update" /\ s = "enter" -> "update_build"
      [] op = "update" /\ s = "update_build" -> "update_execute"
      [] op = "delete" /\ s = "enter" -> "delete_associations"
      [] op = "delete" /\ s = "delete_associations" -> "delete_check"
      [] op = "delete" /\ s = "delete_check" -> "delete_count"
      [] op = "delete" /\ s = "delete_count" -> "delete_server"
      [] OTHER -> "exit"

\* delete_server removing the Server row before its association rows
StatementAfterServerFirst(op, s) ==
    CASE op = "list" /\ s = "enter" -> "list_select"
      [] op = "get" /\ s = "enter" -> "get_select"
      [] op = "create" /\ s = "enter" -> "create_check_datacenter"
      [] op = "create" /\ s = "create_check_datacenter" -> "create_insert"
      [] op = "update" /\ s = "enter" -> "update_build"
      [] op = "update" /\ s = "update_build" -> "update_execute"
      [] op = "delete" /\ s = "enter" -> "delete_check"
      [] op = "delete" /\ s = "delete_check" -> "delete_count"
      [] op = "delete" /\ s = "delete_count" -> "delete_server"
      [] op = "delete" /\ s = "delete_server" -> "delete_associations"
      [] OTHER -> "exit"

\* The order in which a handler sends its statements, from entering the
\* connection scope ("enter") to leaving it ("exit")
StatementAfter(op, s) ==
    CASE op = "list" /\ s = "enter" -> "list_select"
      [] op = "get" /\ s = "enter" -> "get_select"
      [] op = "create" /\ s = "enter" -> "create_check_datacenter"
      [] op = "create" /\ s = "create_check_datacenter" -> "create_insert"
      [] op = "update" /\ s = "enter" -> "update_build"
      [] op = "update" /\ s = "update_build" -> "update_execute"
      [] op = "delete" /\ s = "enter" -> "delete_check"
      [] op = "delete" /\ s = "delete_check" -> "delete_count"
      [] op = "delete" /\ s = "delete_count" -> "delete_associations"
      [] op = "delete" /\ s = "delete_associations" -> "delete_server"
      [] OTHER -> "exit"

\* ------------------------------------------------------------- the store
\* Rows of public.server a statement of worker p sees: committed rows with
\* the writes of p's own transaction applied
VisibleServers(p) ==
    {r \in Server : r.id \notin tx[p].delServer \cup Ids(tx[p].upd)}
        \cup {r \in tx[p].upd : r.id \notin tx[p].delServer}
        \cup {r \in tx[p].ins : r.id \notin tx[p].delServer}

VisibleAssociations(p) == SwitchToServer \ tx[p].delAssoc

\* Row locks held by open transactions other than p's
ServerLockedByOther(p, id) ==
    \E q \in Workers \ {p} : id \in tx[q].delServer \cup Ids(tx[q].upd)

AssociationLockedByOther(p, a) ==
    \E q \in Workers \ {p} : a \in tx[q].delAssoc

\* The WHERE id = %s clause left out
MatchingServersUnfiltered(p, id) == VisibleServers(p)

\* ... FROM public.server WHERE id = %s, as worker p sees the table
MatchingServers(p, id) == {r \in VisibleServers(p) : r.id = id}

\* The reference check left out
DatacenterExistsUnchecked(v) == TRUE

\* A null datacenter_id taken for a valid one
DatacenterExistsOrNull(v) == v = NULL \/ v \in Datacenter

\* SELECT id FROM public.datacenter WHERE id = %s  (id = NULL matches nothing)
DatacenterExists(v) == v # NULL /\ v \in Datacenter

\* ------------------------------------------------------------------ Init
InitialServers ==
    {[id |-> i, hostname |-> "h1", configuration |-> "c1",
      datacenter_id |-> "dc1", created_at |-> 0, modified_at |-> 0] :
        i \in InitialServerIds}

\* Server 1 is linked to InitAssociations switches, Server 2 to none
InitialAssociations == [switch_id : 1..InitAssociations, server_id : {1}]

Init ==
    /\ Server = InitialServers
    /\ Datacenter = InitialDatacenters
    /\ SwitchToServer = InitialAssociations
    /\ seq = 2
    /\ clock = 1
    /\ acquired = 0
    /\ started = 0
    /\ pc = [p \in Workers |-> "idle"]
    /\ req = [p \in Workers |-> NoRequest]
    /\ txStart = [p \in Workers |-> 0]
    /\ tx = [p \in Workers |-> EmptyTx]
    /\ status = [p \in Workers |-> "OK"]
    /\ local = [p \in Workers |-> NoLocal]
    /\ stmts = [p \in Workers |-> <<>>]
    /\ removed = {}

\* ------------------------------------------------------ get_db_connection
\* get_all_servers: limit = min(limit, 1000)
EffectiveLimit(limit) == Min(limit, MAX_LIMIT)

\* Workers are interchangeable: a request goes to the first idle one
WorkerBefore(q, p) == q = "w1" /\ p = "w2"

\* A handler enters `with get_db_connection() as conn`: a connection is taken
\* from the pool and a transaction begins
Begin(p, r) ==
    /\ pc[p] = "idle"
    /\ \A q \in Workers : WorkerBefore(q, p) => pc[q] # "idle"
    /\ started < MaxRequests
    /\ acquired < max_size
    /\ started' = started + 1
    /\ acquired' = acquired + 1
    /\ txStart' = [txStart EXCEPT ![p] = clock]
    /\ clock' = clock + 1
    /\ pc' = [pc EXCEPT ![p] = StatementAfter(r.op, "enter")]
    /\ req' = [req EXCEPT ![p] = r]
    /\ tx' = [tx EXCEPT ![p] = EmptyTx]
    /\ status' = [status EXCEPT ![p] = "OK"]
    /\ local' = [local EXCEPT ![p] =
                    [NoLocal EXCEPT !.limit =
                        IF r.op = "list" THEN EffectiveLimit(r.limit) ELSE 0]]
    /\ stmts' = [stmts EXCEPT ![p] = <<>>]
    /\ UNCHANGED <<Server, Datacenter, SwitchToServer, seq, removed>>

\* The worker's slot once the scope is left
Release(p) ==
    /\ acquired' = acquired - 1
    /\ pc' = [pc EXCEPT ![p] = "idle"]
    /\ req' = [req EXCEPT ![p] = NoRequest]
    /\ txStart' = [txStart EXCEPT ![p] = 0]
    /\ tx' = [tx EXCEPT ![p] = EmptyTx]
    /\ status' = [status EXCEPT ![p] = "OK"]
    /\ local' = [local EXCEPT ![p] = NoLocal]
    /\ stmts' = [stmts EXCEPT ![p] = <<>>]

\* A scope that commits however the handler leaves it
CommitsOnAny(s) == TRUE

\* What the scope does with the transaction when the handler leaves it with
\* outcome s
CommitsOn(s) == s = "OK"

\* The handler returned: the transaction commits, the connection goes back
TransactionCommit(p) ==
    /\ pc[p] = "exit"
    /\ CommitsOn(status[p])
    /\ Server' = VisibleServers(p)
    /\ SwitchToServer' = VisibleAssociations(p)
    /\ removed' = removed \cup tx[p].delServer
    /\ Release(p)
    /\ UNCHANGED <<Datacenter, seq, clock, started>>

\* The handler raised: the transaction rolls back, the connection goes back
TransactionRollback(p) ==
    /\ pc[p] = "exit"
    /\ ~CommitsOn(status[p])
    /\ Release(p)
    /\ UNCHANGED <<Server, Datacenter, SwitchToServer, seq, clock, started,
                   removed>>

\* raise HTTPException(...) or an error of the store: the handler leaves the
\* scope with outcome s
Raise(p, s) ==
    /\ status' = [status EXCEPT ![p] = s]
    /\ pc' = [pc EXCEPT ![p] = "exit"]

\* The handler goes on to its next statement
Advance(p) ==
    pc' = [pc EXCEPT ![p] = StatementAfter(req[p].op, pc[p])]

\* The HTTP status the client receives
StatusCode(op, s) ==
    CASE s = "NotFound" -> 404
      [] s = "InvalidReference" -> 400
      [] s = "NoFieldsToUpdate" -> 400
      [] s = "StoreFailure" -> 500
      [] s = "OK" /\ op = "create" -> 201
      [] s = "OK" /\ op = "delete" -> 204
      [] OTHER -> 200

\* ------------------------------------------------------- GET /servers/
ListSelect(p) ==
    /\ pc[p] = "list_select"
    /\ IF local[p].limit < 0 \/ req[p].skip < 0
       THEN \* the store rejects a negative LIMIT or OFFSET
            /\ Raise(p, "StoreFailure")
            /\ UNCHANGED local
       ELSE /\ local' = [local EXCEPT ![p].result =
                            LimitOffset(OrderById(VisibleServers(p)),
                                        local[p].limit, req[p].skip)]
            /\ Advance(p)
            /\ UNCHANGED status
    /\ UNCHANGED <<Server, Datacenter, SwitchToServer, seq, clock, acquired,
                   started, req, txStart, tx, stmts, removed>>

\* ------------------------------------------------ GET /servers/{server_id}
GetSelect(p) ==
    /\ pc[p] = "get_select"
    /\ LET found == MatchingServers(p, req[p].server_id)
       IN IF found = {}
          THEN /\ Raise(p, "NotFound")
               /\ UNCHANGED local
          ELSE /\ local' = [local EXCEPT ![p].result =
                               <<Head(OrderById(found))>>]
               /\ Advance(p)
               /\ UNCHANGED status
    /\ UNCHANGED <<Server, Datacenter, SwitchToServer, seq, clock, acquired,
                   started, req, txStart, tx, stmts, removed>>

\* ------------------------------------------------------ POST /servers/
CreateCheckDatacenter(p) ==
    /\ pc[p] = "create_check_datacenter"
    /\ IF ~DatacenterExists(req[p].body.datacenter_id)
       THEN Raise(p, "InvalidReference")
       ELSE /\ Advance(p)
            /\ UNCHANGED status
    /\ UNCHANGED <<Server, Datacenter, SwitchToServer, seq, clock, acquired,
                   started, req, txStart, tx, local, stmts, removed>>

\* INSERT INTO public.server (hostname, configuration, datacenter_id) ...:
\* the store assigns id from the sequence and both timestamps from NOW()
InsertedRow(id, body, now) ==
    [id |-> id, hostname |-> body.hostname,
     configuration |-> body.configuration,
     datacenter_id |-> body.datacenter_id,
     created_at |-> now, modified_at |-> now]

CreateInsert(p) ==
    /\ pc[p] = "create_insert"
    /\ LET new == InsertedRow(seq + 1, req[p].body, txStart[p])
       IN /\ seq' = seq + 1
          /\ tx' = [tx EXCEPT ![p].ins = @ \cup {new}]
          /\ local' = [local EXCEPT ![p].result = <<new>>]
    /\ stmts' = [stmts EXCEPT ![p] = Append(@, "INSERT")]
    /\ Advance(p)
    /\ UNCHANGED <<Server, Datacenter, SwitchToServer, clock, acquired,
                   started, req, txStart, status, removed>>

\* ---------------------------------------------- PUT /servers/{server_id}
\* allowed_fields without its datacenter_id entry
UpdateFieldsWithoutDatacenter(body) ==
    DOMAIN body \cap {"hostname", "configuration"}

\* update_data restricted to allowed_fields: the columns the SET clause names
UpdateFields(body) == DOMAIN body \cap Fields

\* The empty-update check left out
NothingToUpdateNever(update_fields) == FALSE

\* `if not update_fields`
NothingToUpdate(update_fields) == update_fields = {}

\* UPDATE public.server SET <update_fields>, modified_at = NOW() WHERE id = %s
SetColumns(old, body, fields, now) ==
    [id |-> old.id,
     hostname |-> IF "hostname" \in fields THEN body["hostname"]
                  ELSE old.hostname,
     configuration |-> IF "configuration" \in fields THEN body["configuration"]
                       ELSE old.configuration,
     datacenter_id |-> IF "datacenter_id" \in fields THEN body["datacenter_id"]
                       ELSE old.datacenter_id,
     created_at |-> old.created_at,
     modified_at |-> now]

\* The loop over update_data (with its datacenter SELECT when datacenter_id
\* was sent) and the `if not update_fields` check
UpdateBuild(p) ==
    /\ pc[p] = "update_build"
    /\ LET body == req[p].body
       IN IF "datacenter_id" \in DOMAIN body
             /\ ~DatacenterExists(body["datacenter_id"])
          THEN /\ Raise(p, "InvalidReference")
               /\ UNCHANGED local
          ELSE IF NothingToUpdate(UpdateFields(body))
          THEN /\ Raise(p, "NoFieldsToUpdate")
               /\ UNCHANGED local
          ELSE /\ local' = [local EXCEPT ![p].update_fields = UpdateFields(body)]
               /\ Advance(p)
               /\ UNCHANGED status
    /\ UNCHANGED <<Server, Datacenter, SwitchToServer, seq, clock, acquired,
                   started, req, txStart, tx, stmts, removed>>

\* cur.execute(query, params) and the `if not updated_server` check
UpdateExecute(p) ==
    /\ pc[p] = "update_execute"
    /\ ~ServerLockedByOther(p, req[p].server_id)
    /\ stmts' = [stmts EXCEPT ![p] = Append(@, "UPDATE")]
    /\ LET found == MatchingServers(p, req[p].server_id)
       IN IF found = {}
          THEN /\ Raise(p, "NotFound")
               /\ UNCHANGED <<tx, local>>
          ELSE LET new == {SetColumns(old, req[p].body, local[p].update_fields,
                                      txStart[p]) : old \in found}
               IN /\ tx' = [tx EXCEPT ![p].upd = new]
                  /\ local' = [local EXCEPT ![p].result =
                                   <<Head(OrderById(new))>>]
                  /\ Advance(p)
                  /\ UNCHANGED status
    /\ UNCHANGED <<Server, Datacenter, SwitchToServer, seq, clock, acquired,
                   started, req, txStart, removed>>

\* ------------------------------------------- DELETE /servers/{server_id}
\* SELECT id, hostname FROM public.server WHERE id = %s; `if not server`
DeleteCheck(p) ==
    /\ pc[p] = "delete_check"
    /\ LET found == MatchingServers(p, req[p].server_id)
       IN /\ local' = [local EXCEPT ![p].server = found]
          /\ IF found = {}
             THEN Raise(p, "NotFound")
             ELSE /\ Advance(p)
                  /\ UNCHANGED status
    /\ UNCHANGED <<Server, Datacenter, SwitchToServer, seq, clock, acquired,
                   started, req, txStart, tx, stmts, removed>>

\* The cascade matching no association row
AssociationsOfNone(p, id) == {}

\* Rows of public.switch_to_server with server_id = id that p sees
AssociationsOf(p, id) == {a \in VisibleAssociations(p) : a.server_id = id}

\* SELECT COUNT(*) FROM public.switch_to_server WHERE server_id = %s
DeleteCount(p) ==
    /\ pc[p] = "delete_count"
    /\ local' = [local EXCEPT ![p].association_count =
                    Cardinality(AssociationsOf(p, req[p].server_id))]
    /\ Advance(p)
    /\ UNCHANGED <<Server, Datacenter, SwitchToServer, seq, clock, acquired,
                   started, req, txStart, tx, status, stmts, removed>>

\* DELETE FROM public.switch_to_server WHERE server_id = %s
DeleteAssociations(p) ==
    /\ pc[p] = "delete_associations"
    /\ \A a \in AssociationsOf(p, req[p].server_id) :
           ~AssociationLockedByOther(p, a)
    /\ tx' = [tx EXCEPT ![p].delAssoc =
                 @ \cup AssociationsOf(p, req[p].server_id)]
    /\ stmts' = [stmts EXCEPT ![p] = Append(@, "DELETE")]
    /\ Advance(p)
    /\ UNCHANGED <<Server, Datacenter, SwitchToServer, seq, clock, acquired,
                   started, req, txStart, status, local, removed>>

\* DELETE FROM public.server WHERE id = %s
DeleteServer(p) ==
    /\ pc[p] = "delete_server"
    /\ ~ServerLockedByOther(p, req[p].server_id)
    /\ tx' = [tx EXCEPT ![p].delServer =
                 @ \cup Ids(MatchingServers(p, req[p].server_id))]
    /\ stmts' = [stmts EXCEPT ![p] = Append(@, "DELETE")]
    /\ Advance(p)
    /\ UNCHANGED <<Server, Datacenter, SwitchToServer, seq, clock, acquired,
                   started, req, txStart, status, local, removed>>

\* ------------------------------------------------------- store failures
\* A statement (or the COMMIT) fails in the store: connectivity loss, timeout.
\* The error propagates out of the handler unhandled.
SendsStatement(p) ==
    /\ pc[p] # "idle"
    /\ pc[p] = "exit" => status[p] = "OK"
    /\ pc[p] = "update_build" => "datacenter_id" \in DOMAIN req[p].body

StoreFailure(p) ==
    /\ SendsStatement(p)
    /\ Raise(p, "StoreFailure")
    /\ UNCHANGED <<Server, Datacenter, SwitchToServer, seq, clock, acquired,
                   started, req, txStart, tx, local, stmts, removed>>

\* ------------------------------------------------------- specifications
Next ==
    \/ \E p \in Workers : \E r \in Requests : Begin(p, r)
    \/ \E p \in Workers : ListSelect(p)
    \/ \E p \in Workers : GetSelect(p)
    \/ \E p \in Workers : CreateCheckDatacenter(p)
    \/ \E p \in Workers : CreateInsert(p)
    \/ \E p \in Workers : UpdateBuild(p)
    \/ \E p \in Workers : UpdateExecute(p)
    \/ \E p \in Workers : DeleteCheck(p)
    \/ \E p \in Workers : DeleteCount(p)
    \/ \E p \in Workers : DeleteAssociations(p)
    \/ \E p \in Workers : DeleteServer(p)
    \/ \E p \in Workers : TransactionCommit(p)
    \/ \E p \in Workers : TransactionRollback(p)

\* Requests against a store that answers every statement
Spec == Init /\ [][Next]_vars

NextWithFailures ==
    \/ Next
    \/ \E p \in Workers : StoreFailure(p)

\* Requests against a store that may fail any statement
SpecWithFailures == Init /\ [][NextWithFailures]_vars

\* ------------------------------------------------------------ properties
ClientErrors == {"NotFound", "InvalidReference", "NoFieldsToUpdate"}

\* Worker p leaves the connection scope in this step
Leaves(p) == pc[p] = "exit" /\ pc'[p] = "idle"

\* p serves a create, or an update that sends datacenter_id, naming a
\* datacenter that has no row
NamesMissingDatacenter(p) ==
    \/ /\ req[p].op = "create"
       /\ req[p].body.datacenter_id \notin Datacenter
    \/ /\ req[p].op = "update"
       /\ "datacenter_id" \in DOMAIN req[p].body
       /\ req[p].body["datacenter_id"] \notin Datacenter

\* C1: a create, or an update that supplies datacenter_id, whose
\* datacenter_id matches no Datacenter row never gets past its reference
\* check, ends in InvalidReference (HTTP 400) having written nothing, and the
\* step in which it leaves its scope changes none of the three tables.
C1_InvalidReferenceWritesNothing ==
    /\ [](\A p \in Workers : NamesMissingDatacenter(p) =>
            /\ pc[p] \in {StatementAfter(req[p].op, "enter"), "exit"}
            /\ tx[p] = EmptyTx
            /\ stmts[p] = <<>>
            /\ pc[p] = "exit" =>
                  /\ status[p] = "InvalidReference"
                  /\ StatusCode(req[p].op, status[p]) = 400)
    /\ [][\A p \in Workers :
            NamesMissingDatacenter(p) /\ Leaves(p) => tables' = tables]_vars

\* A create and an update are both about to leave with a missing datacenter
C1_Witness ==
    \E p, q \in Workers :
        /\ NamesMissingDatacenter(p) /\ req[p].op = "create" /\ pc[p] = "exit"
        /\ NamesMissingDatacenter(q) /\ req[q].op = "update" /\ pc[q] = "exit"

\* p's delete returned normally and is committing in this step
DeleteCompletes(p) ==
    req[p].op = "delete" /\ status[p] = "OK" /\ Leaves(p)

\* C2: when a delete of an existing id completes successfully, the Server
\* row with that id is absent and no SwitchToServer row has that server_id;
\* and no SwitchToServer row ever references an id removed by a completed
\* delete.
C2_DeleteCascades ==
    /\ [][\A p \in Workers : DeleteCompletes(p) =>
            /\ req[p].server_id \notin Ids(Server')
            /\ \A a \in SwitchToServer' : a.server_id # req[p].server_id]_vars
    /\ [](\A id \in removed :
            /\ id \notin Ids(Server)
            /\ \A a \in SwitchToServer : a.server_id # id)

\* Server 1, which had association rows, was removed by a completed delete
C2_Witness ==
    /\ 1 \in removed
    /\ InitialAssociations # {}

\* p's update returned normally and is committing in this step
UpdateCompletes(p) ==
    req[p].op = "update" /\ status[p] = "OK" /\ Leaves(p)

\* The columns of a Server row
Columns ==
    {"id", "hostname", "configuration", "datacenter_id", "created_at",
     "modified_at"}

\* Rows old and new agree on every column outside `named` and modified_at
FramePreserved(old, new, named) ==
    \A c \in Columns \ (named \cup {"modified_at"}) : new[c] = old[c]

\* C3: a successful update supplying a subset of the fields leaves every
\* column it does not name as it was, leaves every other Server row as it
\* was, and strictly increases the target row's modified_at.
C3_PartialUpdateFrame ==
    [][\A p \in Workers : UpdateCompletes(p) =>
         \E old \in Server : \E new \in Server' :
            /\ old.id = req[p].server_id
            /\ new.id = req[p].server_id
            /\ FramePreserved(old, new, DOMAIN req[p].body)
            /\ Server' \ {new} = Server \ {old}
            /\ new.modified_at > old.modified_at]_vars

\* C3, the part the code keeps: the frame without the timestamp order
C3_FrameOnly ==
    [][\A p \in Workers : UpdateCompletes(p) =>
         \E old \in Server : \E new \in Server' :
            /\ old.id = req[p].server_id
            /\ new.id = req[p].server_id
            /\ FramePreserved(old, new, DOMAIN req[p].body)
            /\ \A f \in DOMAIN req[p].body : new[f] = req[p].body[f]
            /\ Server' \ {new} = Server \ {old}
            /\ new.modified_at = txStart[p]]_vars

\* p serves an update whose target id has no committed row
UpdatesMissingServer(p) ==
    req[p].op = "update" /\ req[p].server_id \notin Ids(Server)

\* C4 as stated: an update whose target id does not exist signals NotFound
\* (HTTP 404) whatever its payload.
C4_MissingTargetAlwaysNotFound ==
    \A p \in Workers : UpdatesMissingServer(p) /\ pc[p] = "exit" =>
        status[p] = "NotFound"

\* p's payload passes the checks that come before the UPDATE statement
PayloadPassesChecks(p) ==
    /\ DOMAIN req[p].body # {}
    /\ "datacenter_id" \in DOMAIN req[p].body =>
           req[p].body["datacenter_id"] \in Datacenter

\* C4 amended: an update whose target id does not exist signals NotFound
\* (HTTP 404) when its payload supplies at least one field and any
\* datacenter_id it supplies exists; with any other payload it signals the
\* 400 of that payload; in every case no Server row is changed.
C4_MissingTargetAmended ==
    /\ [](\A p \in Workers : UpdatesMissingServer(p) /\ pc[p] = "exit" =>
            /\ tx[p] = EmptyTx
            /\ status[p] \in ClientErrors
            /\ PayloadPassesChecks(p) =>
                  /\ status[p] = "NotFound"
                  /\ StatusCode(req[p].op, status[p]) = 404
            /\ ~PayloadPassesChecks(p) =>
                  StatusCode(req[p].op, status[p]) = 400)
    /\ [][\A p \in Workers :
            UpdatesMissingServer(p) /\ Leaves(p) => Server' = Server]_vars

\* An update of a missing id is about to leave with NotFound
C4_Witness ==
    \E p \in Workers :
        /\ UpdatesMissingServer(p)
        /\ pc[p] = "exit"
        /\ status[p] = "NotFound"
        /\ stmts[p] = <<"UPDATE">>

\* p serves an update whose payload supplies no field
UpdatesNothing(p) == req[p].op = "update" /\ DOMAIN req[p].body = {}

\* C5: an update whose payload supplies none of hostname, configuration,
\* datacenter_id signals NoFieldsToUpdate (HTTP 400), issues no UPDATE
\* statement and leaves the store, modified_at included, as it was.
C5_EmptyUpdateRejected ==
    /\ [](\A p \in Workers : UpdatesNothing(p) =>
            /\ pc[p] \in {"update_build", "exit"}
            /\ stmts[p] = <<>>
            /\ tx[p] = EmptyTx
            /\ pc[p] = "exit" =>
                  /\ status[p] = "NoFieldsToUpdate"
                  /\ StatusCode(req[p].op, status[p]) = 400)
    /\ [][\A p \in Workers :
            UpdatesNothing(p) /\ Leaves(p) => tables' = tables]_vars

\* An empty update of an existing row is about to leave
C5_Witness ==
    \E p \in Workers :
        /\ UpdatesNothing(p)
        /\ req[p].server_id \in Ids(Server)
        /\ pc[p] = "exit"

\* p's existence SELECT runs in this step
DeleteChecks(p) == pc[p] = "delete_check" /\ pc'[p] # "delete_check"

\* C6: a delete of an id that has no Server row signals NotFound (HTTP 404)
\* and writes nothing, the first time and every time it is repeated: the
\* tables are unchanged by it, and an id once removed stays absent.
C6_DeleteMissingIsNotFound ==
    /\ [][\A p \in Workers :
            DeleteChecks(p) /\ req[p].server_id \notin Ids(Server) =>
               /\ pc'[p] = "exit"
               /\ status'[p] = "NotFound"
               /\ StatusCode(req[p].op, status'[p]) = 404]_vars
    /\ [](\A p \in Workers :
            req[p].op = "delete" /\ status[p] = "NotFound" =>
               stmts[p] = <<>> /\ tx[p] = EmptyTx)
    /\ [][\A p \in Workers :
            req[p].op = "delete" /\ status[p] = "NotFound" /\ Leaves(p) =>
               tables' = tables]_vars
    /\ [][\A id \in removed : id \notin Ids(Server')]_vars

\* The delete of an id that an earlier delete removed is about to leave with
\* NotFound
C6_Witness ==
    \E p \in Workers :
        /\ req[p].op = "delete"
        /\ req[p].server_id \in removed
        /\ pc[p] = "exit"
        /\ status[p] = "NotFound"

\* The page the list operation is to return for skip and limit
ExpectedPage(rows, skip, limit) ==
    [i \in 1..Min(Min(limit, MAX_LIMIT), Cardinality(rows) - skip) |->
        CHOOSE r \in rows :
            Cardinality({o \in rows : o.id < r.id}) = skip + i - 1]

\* C7: for every skip and limit the list operation returns the Server rows
\* in ascending id order with the first skip rows omitted and at most
\* min(limit, 1000) rows, with an effective page size of exactly 1000 for
\* every limit above 1000, and changes nothing in the store.
C7_ListPage ==
    \A p \in Workers : req[p].op = "list" /\ pc[p] = "exit" =>
        /\ status[p] = "OK"
        /\ local[p].limit = Min(req[p].limit, MAX_LIMIT)
        /\ req[p].limit > MAX_LIMIT => local[p].limit = MAX_LIMIT
        /\ Len(local[p].result) <= Min(req[p].limit, MAX_LIMIT)
        /\ \A i, j \in 1..Len(local[p].result) :
              i < j => local[p].result[i].id < local[p].result[j].id
        /\ tx[p] = EmptyTx

\* C7 on the inputs the store accepts: the same for skip >= 0 and limit >= 0,
\* the page being exactly the expected one when no request wrote meanwhile
C7_ListPageNonNegative ==
    \A p \in Workers :
        req[p].op = "list" /\ pc[p] = "exit"
            /\ req[p].skip >= 0 /\ req[p].limit >= 0 =>
        /\ status[p] = "OK"
        /\ local[p].limit = Min(req[p].limit, MAX_LIMIT)
        /\ req[p].limit > MAX_LIMIT => local[p].limit = MAX_LIMIT
        /\ Len(local[p].result) <= Min(req[p].limit, MAX_LIMIT)
        /\ \A i, j \in 1..Len(local[p].result) :
              i < j => local[p].result[i].id < local[p].result[j].id
        /\ started = 1 =>
              local[p].result = ExpectedPage(Server, req[p].skip, req[p].limit)
        /\ tx[p] = EmptyTx

\* C8: every request's statements run in one transaction scope: the tables
\* change only in the step in which a handler that returned normally leaves
\* its scope, and then by all of its writes at once; a handler that leaves
\* with any failure leaves the tables as they were; either way its writes
\* are no longer pending and its connection is back in the pool.
C8_OneTransactionPerRequest ==
    /\ [][tables' # tables =>
            \E p \in Workers :
               /\ Leaves(p)
               /\ status[p] = "OK"
               /\ Server' = (Server \ {r \in Server :
                                r.id \in tx[p].delServer \cup Ids(tx[p].upd)})
                            \cup {r \in tx[p].upd \cup tx[p].ins :
                                    r.id \notin tx[p].delServer}
               /\ SwitchToServer' = SwitchToServer \ tx[p].delAssoc]_vars
    /\ [][\A p \in Workers : Leaves(p) =>
            /\ status[p] # "OK" => tables' = tables
            /\ tx'[p] = EmptyTx
            /\ acquired' = acquired - 1]_vars
    /\ [](acquired = Cardinality({p \in Workers : pc[p] # "idle"}))

\* A delete fails in the store after its first write
C8_Witness ==
    \E p \in Workers :
        /\ req[p].op = "delete"
        /\ pc[p] = "exit"
        /\ status[p] = "StoreFailure"
        /\ tx[p].delAssoc # {}

\* C9: whatever create, update and delete requests ran, and however they
\* interleaved, every Server row's datacenter_id references an existing
\* Datacenter row (no request removes a Datacenter row).
C9_DatacenterReferenceValid ==
    /\ \A r \in Server : r.datacenter_id \in Datacenter
    /\ Datacenter = InitialDatacenters

\* A created server was moved to another datacenter by an update
C9_Witness ==
    \E r \in Server :
        /\ r.id \notin InitialServerIds
        /\ r.datacenter_id = "dc2"

\* C10 as stated: a request that ends in NotFound, InvalidReference or
\* NoFieldsToUpdate has executed no mutating statement.
C10_NoStatementBeforeClientError ==
    \A p \in Workers : pc[p] = "exit" /\ status[p] \in ClientErrors =>
        stmts[p] = <<>>

\* C10 amended: the reference check and the field-presence check of create
\* and update, and the existence check of delete, come before any mutating
\* statement; update has no separate existence check, its UPDATE statement
\* matching no row is the check.  So a request that ends in NotFound,
\* InvalidReference or NoFieldsToUpdate has changed no row, and has executed
\* no mutating statement unless it is an update ending in NotFound, which
\* has executed its one UPDATE.
C10_ChecksBeforeWrites ==
    \A p \in Workers : pc[p] = "exit" /\ status[p] \in ClientErrors =>
        /\ tx[p] = EmptyTx
        /\ IF req[p].op = "update" /\ status[p] = "NotFound"
           THEN stmts[p] = <<"UPDATE">>
           ELSE stmts[p] = <<>>

\* A delete and an update are both about to leave with NotFound
C10_Witness ==
    \E p, q \in Workers :
        /\ req[p].op = "delete" /\ pc[p] = "exit" /\ status[p] = "NotFound"
        /\ req[q].op = "update" /\ pc[q] = "exit" /\ status[q] = "NotFound"

\* p serves a delete whose existence check found the row
DeletesExisting(p) == req[p].op = "delete" /\ local[p].server # {}

\* In the tables as worker q sees them, Server id is gone while a
\* SwitchToServer row still references it
OrphanSeenBy(q, id) ==
    /\ id \notin Ids(VisibleServers(q))
    /\ \E a \in VisibleAssociations(q) : a.server_id = id

\* C11: a delete of an existing id performs exactly two writes in one
\* transaction, the removal of the SwitchToServer rows of the target first
\* and the removal of the Server row second; no worker, the deleting one
\* included, ever sees the Server row gone while a SwitchToServer row still
\* references it; and between the two writes every other worker still sees
\* the rows the first write removed, the committed tables being untouched
\* until the delete commits both writes in one step.
C11_DeleteOrderAndIsolation ==
    /\ [](\A p \in Workers : DeletesExisting(p) =>
            /\ pc[p] \in {"delete_count", "delete_associations"} =>
                  stmts[p] = <<>> /\ tx[p] = EmptyTx
            /\ pc[p] = "delete_server" =>
                  /\ stmts[p] = <<"DELETE">>
                  /\ tx[p].delServer = {}
                  /\ tx[p].delAssoc \subseteq SwitchToServer
                  /\ \A q \in Workers \ {p} :
                        tx[p].delAssoc \subseteq VisibleAssociations(q)
            /\ pc[p] = "exit" /\ status[p] = "OK" =>
                  /\ stmts[p] = <<"DELETE", "DELETE">>
                  /\ tx[p].ins = {} /\ tx[p].upd = {}
                  /\ tx[p].delServer \subseteq {req[p].server_id}
                  /\ \A a \in tx[p].delAssoc :
                        a.server_id = req[p].server_id)
    /\ [](\A q \in Workers : \A id \in TargetIds \cup Ids(InitialServers) :
            ~OrphanSeenBy(q, id))
    /\ [][\A p \in Workers :
            pc[p] = "delete_server" /\ pc'[p] # "delete_server"
                /\ status'[p] = "OK" =>
               /\ tx'[p].delServer \subseteq {req[p].server_id}
               /\ req[p].server_id \notin Ids(VisibleServers(p))'
               /\ tx'[p].delAssoc = tx[p].delAssoc
               /\ \A a \in VisibleAssociations(p) :
                     a.server_id # req[p].server_id
               /\ tables' = tables]_vars
    /\ [][\A p \in Workers :
            DeletesExisting(p) /\ ~Leaves(p) /\ pc'[p] # pc[p] =>
               tables' = tables]_vars

\* A delete of Server 1 stands between its two writes, its association rows
\* removed in its own transaction, while another request is reading
C11_Witness ==
    \E p, q \in Workers :
        /\ p # q
        /\ DeletesExisting(p)
        /\ req[p].server_id = 1
        /\ pc[p] = "delete_server"
        /\ tx[p].delAssoc = InitialAssociations
        /\ InitialAssociations # {}
        /\ req[q].op \in {"get", "list"}
        /\ pc[q] \in {"get_select", "list_select"}

====
